---- MODULE Spec2Model ----
(***************************************************************************)
(* Model of app.py: generate_and_zip_pdfs (lines 8-65) and the "Generate   *)
(* Certificates" button handler (lines 126-145).                           *)
(*                                                                         *)
(* Text is a sequence of one-character strings, so that lower(), endswith  *)
(* and += are computed rather than assumed.  A page is identified by its   *)
(* 0-based position in the master PDF.  The archive is the list of entries *)
(* zipfile.ZipFile keeps (filelist), in the order writestr was called.     *)
(***************************************************************************)
EXTENDS Integers, Sequences, FiniteSets, TLC

\* ---------------------------------------------------------------- bounds
MaxRows == 3     \* rows of the name column of a workbook
MaxPages == 3    \* pages of a master PDF

\* ------------------------------------------------------------- text model
PdfExt == <<".", "p", "d", "f">>

\* str.lower() on the characters the model uses
LowerChar(c) ==
    CASE c = "P" -> "p"
      [] c = "D" -> "d"
      [] c = "F" -> "f"
      [] c = "X" -> "x"
      [] OTHER -> c

Lower(s) == [k \in DOMAIN s |-> LowerChar(s[k])]

EndsWith(s, suffix) ==
    /\ Len(s) >= Len(suffix)
    /\ SubSeq(s, Len(s) - Len(suffix) + 1, Len(s)) = suffix

\* a mutant of NormalizeFilename: the suffix test is case-sensitive
NormalizeCaseSensitive(filename) ==
    IF ~EndsWith(filename, PdfExt) THEN filename \o PdfExt ELSE filename

\* app.py 41-42: if not filename.lower().endswith('.pdf'): filename += '.pdf'
NormalizeFilename(filename) ==
    IF ~EndsWith(Lower(filename), PdfExt) THEN filename \o PdfExt ELSE filename

\* ------------------------------------------------------------ spreadsheet
\* A cell of the sheet as the workbook stores it: text (possibly the empty
\* string), a number, or nothing at all.
NaN == [kind |-> "nan", val |-> <<>>]
TextCell(s) == [kind |-> "str", val |-> s]
NumCell == [kind |-> "num", val |-> <<"7">>]

Texts ==
    { <<"x">>,
      <<"x", ".", "p", "d", "f">>,
      <<"X", ".", "P", "d", "F">>,
      <<"y">>,
      <<"p", "d", "f">> }

Cells == {TextCell(s) : s \in Texts} \cup {TextCell(<<>>), NumCell, NaN}

SeqsUpTo(S, n) == UNION {[1..k -> S] : k \in 0..n}

\* pandas.read_excel turns a missing cell and an empty-string cell into NaN
\* (the default na_values); every other cell keeps its value and its type.
ReadCell(c) == IF c.kind = "str" /\ c.val = <<>> THEN NaN ELSE c

IsNa(c) == c.kind = "nan"

\* app.py 21: df[filename_col].dropna().tolist()
DropNa(column) == SelectSeq(column, LAMBDA c : ~IsNa(c))

ExcTypes == {"ValueError", "Exception"}

Headers == <<"Id", "Name">>
SheetsOfWorkbook == {"Sheet1"}
SheetNames == {"Sheet1", "Sheet2"}
FilenameCols == {"Name", "Email"}

\* An uploaded workbook: unreadable (read_excel raises exc) or a book whose
\* sheet has the headers Headers and, under "Name", the given cells.
Workbooks ==
    {[readable |-> FALSE, exc |-> t, cells |-> <<>>] : t \in ExcTypes}
    \cup {[readable |-> TRUE, exc |-> "none", cells |-> cs] :
             cs \in SeqsUpTo(Cells, MaxRows)}

\* An uploaded master PDF: unreadable (PdfReader raises exc) or n pages.
PdfFiles ==
    {[readable |-> FALSE, exc |-> t, pages |-> 0] : t \in ExcTypes}
    \cup {[readable |-> TRUE, exc |-> "none", pages |-> n] : n \in 0..MaxPages}

\* what the upload widgets and dropdowns hold when nothing was chosen
NoWorkbook == [readable |-> FALSE, exc |-> "absent", cells |-> <<>>]
NoPdf == [readable |-> FALSE, exc |-> "absent", pages |-> 0]
NoChoice == ""

\* ------------------------------------------------------------- exceptions
NoExc == [type |-> "none", origin |-> "none"]
Exc(t, o) == [type |-> t, origin |-> o]

NoMsg == [kind |-> "none", headers |-> <<>>, cause |-> NoExc]

\* app.py 60-65: except ValueError -> "Sheet ... not found";
\* except Exception as e -> "An unexpected error occurred: {e}"
ExceptHandler(e) ==
    IF e.type = "ValueError"
    THEN [kind |-> "SheetNotFound", headers |-> <<>>, cause |-> NoExc]
    ELSE [kind |-> "UnexpectedFailure", headers |-> <<>>, cause |-> e]

\* a mutant of InColumns: the column check is skipped
InColumnsAlways(col, columns) == TRUE

\* app.py 16: filename_col in df.columns
InColumns(col, columns) == \E k \in DOMAIN columns : columns[k] = col

\* app.py 17-18: the two st.error lines of the missing-column exit
ColumnNotFoundMsg(columns) ==
    [kind |-> "ColumnNotFound", headers |-> columns, cause |-> NoExc]

\* ------------------------------------------------------------ the results
NoneResult == [isNone |-> TRUE, entries |-> <<>>]
ZipBuffer(entries) == [isNone |-> FALSE, entries |-> entries]

\* app.py 138: if zip_file_buffer (None is falsy, a BytesIO is truthy)
Truthy(buffer) == ~buffer.isNone

\* ----------------------------------------------------------- the pairing
\* a mutant of BreakLoop: the loop stops one page early
BreakLoopEarly(page_num, pages) == page_num >= pages

\* app.py 38: if page_num > num_pdf_pages: break
BreakLoop(page_num, pages) == page_num > pages

\* a mutant of InsufficientPages: warns when the counts are equal too
InsufficientPagesOrEqual(pages, names) == pages <= names

\* app.py 27: if num_pdf_pages < len(filenames)
InsufficientPages(pages, names) == pages < names

\* a mutant of ExtractPage: the 1-based page number is used as the index
ExtractPageByNumber(idx) == idx + 1

\* app.py 46-51: a one-page document made of pdf_reader.pages[i]
ExtractPage(idx) == idx

\* a mutant of WriteStr: an entry of the same name is replaced
WriteStrReplacing(zip, name, data) ==
    SelectSeq(zip, LAMBDA e : e.name # name) \o <<[name |-> name, page |-> data]>>

\* app.py 53: zip_f.writestr(filename, ...).  ZipFile appends one entry to
\* its filelist per call; a name already present is not replaced.
WriteStr(zip, name, data) == Append(zip, [name |-> name, page |-> data])

\* a mutant of ProgressValue: the index instead of the page number
ProgressValueFromIndex(idx, names) == <<idx, names>>

\* app.py 55: (i + 1) / len(filenames), kept as numerator and denominator
ProgressValue(idx, names) == <<idx + 1, names>>

VARIABLES
    pc,             \* position in the script / in generate_and_zip_pdfs
    excel_file,     \* argument: the workbook
    pdf_file,       \* argument: the master PDF
    sheet_name,     \* argument
    filename_col,   \* argument
    filenames,      \* local, line 21
    num_pdf_pages,  \* local, line 25
    i,              \* iterations of the for loop completed (next index)
    zip_f,          \* entries written so far, in order (ZipFile.filelist)
    progress_bar,   \* values passed to progress_bar.progress (line 55), in
                    \* order; the bar itself is created at 0 by line 35
    warned,         \* the st.warning of line 28 was emitted
    exc,            \* the exception raised inside the try block, if any
    st_error,       \* the st.error report of the run (lines 17-18, 61, 64)
    result,         \* zip_file_buffer: what the function returned
    ui              \* what the button handler showed

vars == <<pc, excel_file, pdf_file, sheet_name, filename_col, filenames,
          num_pdf_pages, i, zip_f, progress_bar, warned, exc, st_error,
          result, ui>>

locals == <<filenames, num_pdf_pages, i, zip_f, progress_bar, warned, exc,
            st_error, result>>

args == <<excel_file, pdf_file, sheet_name, filename_col>>

Min(a, b) == IF a < b THEN a ELSE b

\* the script before the button is pressed (lines 68-124)
Init ==
    /\ pc = "idle"
    /\ excel_file = NoWorkbook
    /\ pdf_file = NoPdf
    /\ sheet_name = NoChoice
    /\ filename_col = NoChoice
    /\ filenames = <<>>
    /\ num_pdf_pages = 0
    /\ i = 0
    /\ zip_f = <<>>
    /\ progress_bar = <<>>
    /\ warned = FALSE
    /\ exc = NoExc
    /\ st_error = NoMsg
    /\ result = NoneResult
    /\ ui = "nothing"

\* app.py 127: all([pdf_template_file, excel_data_file, sheet, column])
AllFilled(pdf, excel, sheet, col) ==
    /\ pdf # NoPdf
    /\ excel # NoWorkbook
    /\ sheet # NoChoice
    /\ col # NoChoice

\* what the sheet and column dropdowns can hold for an upload (lines 92-121):
\* a sheet and a header of the workbook, or nothing when there is no
\* readable workbook
Selectable(excel, sheet, col) ==
    IF excel.readable
    THEN sheet \in SheetsOfWorkbook /\ InColumns(col, Headers)
    ELSE sheet = NoChoice /\ col = NoChoice

\* app.py 126-128: the button is pressed with a field missing
ClickIncomplete ==
    /\ pc = "idle"
    /\ \E pdf \in PdfFiles \cup {NoPdf}, excel \in Workbooks \cup {NoWorkbook},
          sheet \in SheetsOfWorkbook \cup {NoChoice},
          col \in {"Name", NoChoice} :
          /\ Selectable(excel, sheet, col)
          /\ ~AllFilled(pdf, excel, sheet, col)
          /\ pdf_file' = pdf
          /\ excel_file' = excel
          /\ sheet_name' = sheet
          /\ filename_col' = col
    /\ ui' = "fill_in_warning"
    /\ pc' = "end"
    /\ UNCHANGED locals

\* app.py 126-136: the button is pressed and generate_and_zip_pdfs is called.
\* The function is entered with any workbook, PDF, sheet name and column
\* name, the ones the dropdowns cannot produce included.
ClickGenerate ==
    /\ pc = "idle"
    /\ \E pdf \in PdfFiles, excel \in Workbooks,
          sheet \in SheetNames, col \in FilenameCols :
          /\ AllFilled(pdf, excel, sheet, col)
          /\ pdf_file' = pdf
          /\ excel_file' = excel
          /\ sheet_name' = sheet
          /\ filename_col' = col
    /\ pc' = "read_excel"
    /\ UNCHANGED <<locals, ui>>

\* a mutant of Raise: the archive written so far is returned
RaiseReturningPartial(e) ==
    /\ exc' = e
    /\ st_error' = ExceptHandler(e)
    /\ result' = ZipBuffer(zip_f)
    /\ pc' = "returned"

\* the except clauses (lines 60-65): report and return None
Raise(e) ==
    /\ exc' = e
    /\ st_error' = ExceptHandler(e)
    /\ result' = NoneResult
    /\ pc' = "returned"

\* app.py 15: pd.read_excel raises (unreadable workbook, or no such sheet:
\* pandas raises ValueError for a sheet name the workbook does not have)
ReadExcelRaises ==
    /\ pc = "read_excel"
    /\ \/ /\ ~excel_file.readable
          /\ Raise(Exc(excel_file.exc, "workbook_unreadable"))
       \/ /\ excel_file.readable
          /\ sheet_name \notin SheetsOfWorkbook
          /\ Raise(Exc("ValueError", "sheet_absent"))
    /\ UNCHANGED <<args, filenames, num_pdf_pages, i, zip_f, progress_bar,
                   warned, ui>>

\* app.py 16-19: the column is not a header of the sheet
ColumnNotFound ==
    /\ pc = "read_excel"
    /\ excel_file.readable
    /\ sheet_name \in SheetsOfWorkbook
    /\ ~InColumns(filename_col, Headers)
    /\ st_error' = ColumnNotFoundMsg(Headers)
    /\ result' = NoneResult
    /\ pc' = "returned"
    /\ UNCHANGED <<args, filenames, num_pdf_pages, i, zip_f, progress_bar,
                   warned, exc, ui>>

\* app.py 15-21: the sheet is read and the column's cells are kept
ReadExcelOk ==
    /\ pc = "read_excel"
    /\ excel_file.readable
    /\ sheet_name \in SheetsOfWorkbook
    /\ InColumns(filename_col, Headers)
    /\ filenames' = DropNa([k \in DOMAIN excel_file.cells |->
                               ReadCell(excel_file.cells[k])])
    /\ pc' = "read_pdf"
    /\ UNCHANGED <<args, num_pdf_pages, i, zip_f, progress_bar, warned, exc,
                   st_error, result, ui>>

\* app.py 24: PdfReader raises
ReadPdfRaises ==
    /\ pc = "read_pdf"
    /\ ~pdf_file.readable
    /\ Raise(Exc(pdf_file.exc, "pdf_unreadable"))
    /\ UNCHANGED <<args, filenames, num_pdf_pages, i, zip_f, progress_bar,
                   warned, ui>>

\* app.py 24-30: the page count, the warning and the info line
ReadPdfOk ==
    /\ pc = "read_pdf"
    /\ pdf_file.readable
    /\ num_pdf_pages' = pdf_file.pages
    /\ warned' = InsufficientPages(pdf_file.pages, Len(filenames))
    /\ pc' = "open_zip"
    /\ UNCHANGED <<args, filenames, i, zip_f, progress_bar, exc, st_error,
                   result, ui>>

\* app.py 33-35: the empty archive and the progress bar at 0
OpenZip ==
    /\ pc = "open_zip"
    /\ zip_f' = <<>>
    /\ progress_bar' = <<>>
    /\ i' = 0
    /\ pc' = "loop"
    /\ UNCHANGED <<args, filenames, num_pdf_pages, warned, exc, st_error,
                   result, ui>>

\* the loop has a next name and a page for it
HasNext == i < Len(filenames) /\ ~BreakLoop(i + 1, num_pdf_pages)

\* app.py 41: filename.lower() on a cell that is not text
LoopNotText ==
    /\ pc = "loop"
    /\ HasNext
    /\ filenames[i + 1].kind # "str"
    /\ Raise(Exc("AttributeError", "name_not_text"))
    /\ UNCHANGED <<args, filenames, num_pdf_pages, i, zip_f, progress_bar,
                   warned, ui>>

\* app.py 46-53: extracting or storing the page raises
LoopPageRaises ==
    /\ pc = "loop"
    /\ HasNext
    /\ filenames[i + 1].kind = "str"
    /\ \E t \in ExcTypes : Raise(Exc(t, "page_failure"))
    /\ UNCHANGED <<args, filenames, num_pdf_pages, i, zip_f, progress_bar,
                   warned, ui>>

\* app.py 36-55: one iteration of the loop
LoopWrite ==
    /\ pc = "loop"
    /\ HasNext
    /\ filenames[i + 1].kind = "str"
    /\ zip_f' = WriteStr(zip_f, NormalizeFilename(filenames[i + 1].val),
                         ExtractPage(i))
    /\ progress_bar' = Append(progress_bar, ProgressValue(i, Len(filenames)))
    /\ i' = i + 1
    /\ UNCHANGED <<args, filenames, num_pdf_pages, warned, exc, st_error,
                   result, ui, pc>>

\* app.py 36-39, 57-58: the loop ends (names exhausted or break) and the
\* archive is returned
LoopExit ==
    /\ pc = "loop"
    /\ ~HasNext
    /\ result' = ZipBuffer(zip_f)
    /\ pc' = "returned"
    /\ UNCHANGED <<args, filenames, num_pdf_pages, i, zip_f, progress_bar,
                   warned, exc, st_error, ui>>

\* app.py 138-145: the handler shows the success message and the download
ShowResult ==
    /\ pc = "returned"
    /\ ui' = IF Truthy(result) THEN "success_and_download" ELSE "nothing"
    /\ pc' = "end"
    /\ UNCHANGED <<args, locals>>

\* the next interaction reruns the script from the top: nothing is kept
Rerun ==
    /\ pc = "end"
    /\ pc' = "idle"
    /\ excel_file' = NoWorkbook
    /\ pdf_file' = NoPdf
    /\ sheet_name' = NoChoice
    /\ filename_col' = NoChoice
    /\ filenames' = <<>>
    /\ num_pdf_pages' = 0
    /\ i' = 0
    /\ zip_f' = <<>>
    /\ progress_bar' = <<>>
    /\ warned' = FALSE
    /\ exc' = NoExc
    /\ st_error' = NoMsg
    /\ result' = NoneResult
    /\ ui' = "nothing"

Next ==
    \/ ClickIncomplete
    \/ ClickGenerate
    \/ ReadExcelRaises
    \/ ColumnNotFound
    \/ ReadExcelOk
    \/ ReadPdfRaises
    \/ ReadPdfOk
    \/ OpenZip
    \/ LoopNotText
    \/ LoopPageRaises
    \/ LoopWrite
    \/ LoopExit
    \/ ShowResult
    \/ Rerun

Spec == Init /\ [][Next]_vars

TypeOK ==
    /\ pc \in {"idle", "read_excel", "read_pdf", "open_zip", "loop",
               "returned", "end"}
    /\ i \in 0..(MaxRows + 1)
    /\ num_pdf_pages \in 0..(MaxPages + 1)
    /\ warned \in BOOLEAN
\* ================================================================ claims
M == Len(filenames)
N == num_pdf_pages

Returned == pc \in {"returned", "end"}
Success == Returned /\ ~result.isNone
Failed == st_error.kind # "none"

\* the key the loop stores for the k-th retained name (k from 1)
KeyOf(k) == NormalizeFilename(filenames[k].val)

DistinctKeys == \A k, l \in 1..M : k # l => KeyOf(k) # KeyOf(l)

NamesOf(entries) == {entries[k].name : k \in DOMAIN entries}

\* C1: a successful run over N pages and M retained names whose normalized
\* filenames are pairwise distinct returns an archive of exactly min(N, M)
\* entries (0 when N = 0 or M = 0), under min(N, M) different filenames.
C1_EntryCount ==
    (Success /\ DistinctKeys) =>
        /\ Len(result.entries) = Min(N, M)
        /\ Cardinality(NamesOf(result.entries)) = Min(N, M)

C1_Witness ==
    /\ pc = "end"
    /\ ui = "success_and_download"
    /\ DistinctKeys
    /\ N = 2
    /\ M = 3
    /\ Len(result.entries) = 2

\* C2: the k-th entry written is keyed by the normalized k-th name and holds
\* page k of the source (0-based) and no other; entries are written in
\* increasing order, one per iteration; nothing is written for a name at an
\* index >= N; the returned archive is the list so written.
C2_Pairing ==
    (pc = "loop" \/ Success) =>
        /\ Len(zip_f) = i
        /\ i <= Min(N, M)
        /\ \A k \in 1..Len(zip_f) :
              /\ zip_f[k].name = KeyOf(k)
              /\ zip_f[k].page = k - 1
        /\ Success => (result.entries = zip_f /\ i = Min(N, M))

C2_Witness ==
    /\ Success
    /\ N = 3
    /\ M = 3
    /\ result.entries =
          << [name |-> <<"x", ".", "p", "d", "f">>, page |-> 0],
             [name |-> <<"X", ".", "P", "d", "F">>, page |-> 1],
             [name |-> <<"y", ".", "p", "d", "f">>, page |-> 2] >>

\* the last four characters, lowered, spell ".pdf"
HasPdfSuffix(s) ==
    /\ Len(s) >= 4
    /\ LowerChar(s[Len(s) - 3]) = "."
    /\ LowerChar(s[Len(s) - 2]) = "p"
    /\ LowerChar(s[Len(s) - 1]) = "d"
    /\ LowerChar(s[Len(s)]) = "f"

\* C3: every key stored in the archive ends in ".pdf" in some letter case; a
\* name without that suffix is stored with ".pdf" appended once, a name with
\* it (in any case) is stored unchanged; normalizing a stored key changes
\* nothing.
C3_Extension ==
    \A k \in 1..Len(zip_f) :
        LET name == filenames[k].val
            key == zip_f[k].name
        IN /\ HasPdfSuffix(key)
           /\ ~HasPdfSuffix(name) => key = name \o <<".", "p", "d", "f">>
           /\ HasPdfSuffix(name) => key = name
           /\ NormalizeFilename(key) = key

C3_Witness ==
    /\ Len(zip_f) = 3
    /\ filenames[1].val = <<"p", "d", "f">>
    /\ zip_f[1].name = <<"p", "d", "f", ".", "p", "d", "f">>
    /\ filenames[2].val = <<"X", ".", "P", "d", "F">>
    /\ zip_f[2].name = <<"X", ".", "P", "d", "F">>
    /\ filenames[3].val = <<"x", ".", "p", "d", "f">>
    /\ zip_f[3].name = <<"x", ".", "p", "d", "f">>

\* two retained names, both paired with a page, that normalize alike
Collide(k, l) ==
    /\ k < l
    /\ l <= Min(N, M)
    /\ KeyOf(k) = KeyOf(l)

EntriesNamed(entries, name) == {k \in DOMAIN entries : entries[k].name = name}

C5_Abort ==
    /\ [](Failed => (Returned /\ result.isNone /\ ui = "nothing"))
    /\ [][(~Failed /\ Failed') =>
             (pc' = "returned" /\ zip_f' = zip_f /\ i' = i
                /\ progress_bar' = progress_bar)]_vars
    /\ [][Failed =>
             \/ pc' = "end" /\ zip_f' = zip_f /\ i' = i /\ st_error' = st_error
                  /\ result' = result
             \/ pc' = "idle"]_vars

C5_Witness ==
    /\ pc = "end"
    /\ exc.origin = "page_failure"
    /\ Len(zip_f) = 2
    /\ result.isNone
    /\ ui = "nothing"

\* C6 as stated: SheetNotFound is reported exactly when the requested sheet
\* is absent from the workbook, and every other exception raised while
\* reading the workbook, reading the PDF or building the archive, a
\* ValueError included, is reported as UnexpectedFailure with its cause.
C6_FailureKind ==
    /\ (st_error.kind = "SheetNotFound") <=> (exc.origin = "sheet_absent")
    /\ (exc # NoExc /\ exc.origin # "sheet_absent") =>
          (st_error.kind = "UnexpectedFailure" /\ st_error.cause = exc)

\* C7: with the sheet present and the requested column not among its
\* headers, the run reports ColumnNotFound with all the sheet's headers and
\* returns None; it gets there from the sheet alone, never reading the PDF,
\* so a bad PDF changes nothing.
ColumnAbsent ==
    /\ pc \notin {"idle", "end"} \/ (pc = "end" /\ ui # "fill_in_warning")
    /\ excel_file.readable
    /\ sheet_name \in SheetsOfWorkbook
    /\ \A k \in DOMAIN Headers : Headers[k] # filename_col

C7_ColumnNotFound ==
    ColumnAbsent =>
        /\ pc \in {"read_excel", "returned", "end"}
        /\ num_pdf_pages = 0 /\ zip_f = <<>> /\ ~warned
        /\ exc = NoExc
        /\ Returned =>
              /\ st_error.kind = "ColumnNotFound"
              /\ st_error.headers = Headers
              /\ result.isNone

C7_Witness ==
    /\ ColumnAbsent
    /\ pc = "end"
    /\ ~pdf_file.readable
    /\ st_error.kind = "ColumnNotFound"
    /\ st_error.headers = <<"Id", "Name">>
    /\ ui = "nothing"

\* the run got past the reading of the PDF
PdfWasRead ==
    \/ pc \in {"open_zip", "loop"}
    \/ Success
    \/ Returned /\ exc.origin \in {"name_not_text", "page_failure"}

\* C8: the InsufficientPages warning is emitted exactly when M > N; it is out
\* before any page is processed; it is no failure: the step that emits it
\* goes on to the loop, and a run with the warning that meets no failure
\* returns the archive of the first N names.
C8_Advisory ==
    /\ pc \in {"idle", "read_excel", "read_pdf"} => ~warned
    /\ PdfWasRead => (warned <=> M > N)
    /\ pc = "open_zip" =>
          (i = 0 /\ zip_f = <<>> /\ progress_bar = <<>> /\ ~Failed)
    /\ (warned /\ Returned /\ ~Failed) =>
          /\ ~result.isNone
          /\ Len(result.entries) = N
          /\ \A k \in 1..N : result.entries[k].name = KeyOf(k)
                              /\ result.entries[k].page = k - 1

C8_Witness ==
    /\ pc = "end"
    /\ warned
    /\ N = 2
    /\ M = 3
    /\ ui = "success_and_download"
    /\ Len(result.entries) = 2

\* p < q for fractions with positive denominators
FracLess(p, q) == p[1] * q[2] < q[1] * p[2]

C10_NamesAreText ==
    pc = "loop" =>
        \A k \in 1..M : filenames[k].kind = "str" /\ filenames[k].val # <<>>
====
